---- MODULE Spec2Model ----
(***************************************************************************)
(* A model of the BackTesting class of backtesting_support.py: the         *)
(* campaign loop run_multiple_backtesting, one trial run_back_testing, the *)
(* two request loops of get_asset_performance, the date sampling, the      *)
(* asset selection and the equal-weight portfolio return.                  *)
(*                                                                         *)
(* Python floats are modelled by exact rationals <<n, d>> (d > 0, lowest   *)
(* terms); NaN is <<0, 0>>.  The log_return column (np.log) has no         *)
(* counterpart in TLA+ and is left out of the performance rows.            *)
(* Mutable Python objects (DataFrames, lists) live in a heap and are       *)
(* referred to by address, so that two names of one object alias.          *)
(***************************************************************************)
EXTENDS Integers, Sequences, FiniteSets, TLC

\* ------------------------------------------------------------------ bounds
\* largest num_backtesting a campaign is started with
MaxTrials == 2
\* the request counter of a fetch loop stops counting here (it has no bound
\* in the code; its value above 1 only feeds a print)
MaxCount == 3
\* provider answers, per campaign, that are not the complete price table
MaxAnomalies == 1
\* number of rows of the scored-asset table drawn for select_assets
MaxRows == 3
\* num_assets of the modelled campaign
NumAssets == 2
\* largest month_interval drawn for get_backtestign_start_date
MaxMonths == 3
\* largest holding period, in years, drawn for get_backtesting_end_date
MaxYears == 2

\* the number of requests get_index makes before it gives up
max_retries == 3

\* ------------------------------------------------------------- arithmetic
Abs(x) == IF x < 0 THEN -x ELSE x

Min(a, b) == IF a <= b THEN a ELSE b

RECURSIVE Gcd(_, _)
Gcd(a, b) == IF b = 0 THEN a ELSE Gcd(b, a % b)

NaN == <<0, 0>>

IsNaN(q) == q[2] = 0

\* the rational n/d in lowest terms with a positive denominator; x/0 is NaN
\* here (prices are positive: a float division by zero does not arise)
Rat(n, d) ==
    IF d = 0 THEN NaN
    ELSE LET g == Gcd(Abs(n), Abs(d))
             s == IF d < 0 THEN -1 ELSE 1
         IN  <<(s * n) \div g, (s * d) \div g>>

RatInt(n) == <<n, 1>>

\* the four operations as one function of the operand values: a function is
\* applied to its evaluated arguments, so an operand is computed once
Arith[op \in {"add", "sub", "mul", "div"}, p \in Int \X Int, q \in Int \X Int] ==
    IF IsNaN(p) \/ IsNaN(q) THEN NaN
    ELSE IF op = "add" THEN Rat(p[1] * q[2] + q[1] * p[2], p[2] * q[2])
    ELSE IF op = "sub" THEN Rat(p[1] * q[2] - q[1] * p[2], p[2] * q[2])
    ELSE IF op = "mul" THEN Rat(p[1] * q[1], p[2] * q[2])
    ELSE Rat(p[1] * q[2], p[2] * q[1])

RatAdd(p, q) == Arith["add", p, q]

RatSub(p, q) == Arith["sub", p, q]

RatMul(p, q) == Arith["mul", p, q]

RatDiv(p, q) == Arith["div", p, q]

\* ------------------------------------------------------------------ dates
\* datetime.date: proleptic Gregorian calendar
IsLeap(y) == (y % 4 = 0) /\ ((y % 100 # 0) \/ (y % 400 = 0))

DaysInMonth(y, m) ==
    IF m = 2 THEN (IF IsLeap(y) THEN 29 ELSE 28)
    ELSE IF m \in {4, 6, 9, 11} THEN 30 ELSE 31

Date(y, m, d) == [year |-> y, month |-> m, day |-> d]

\* days before 1 January of year y, counted from 1 January of year 1
DaysBeforeYear(y) ==
    365 * (y - 1) + ((y - 1) \div 4) - ((y - 1) \div 100) + ((y - 1) \div 400)

RECURSIVE DaysBeforeMonth(_, _)
DaysBeforeMonth(y, m) ==
    IF m = 1 THEN 0 ELSE DaysBeforeMonth(y, m - 1) + DaysInMonth(y, m - 1)

\* date.toordinal()
ToOrdinal(dt) == DaysBeforeYear(dt.year) + DaysBeforeMonth(dt.year, dt.month) + dt.day

\* the years the modelled dates fall in
Years == 2015 .. 2021

\* date.fromordinal(n)
FromOrdinal(n) ==
    LET y == CHOOSE yy \in Years : DaysBeforeYear(yy) < n /\ n <= DaysBeforeYear(yy + 1)
        r == n - DaysBeforeYear(y)
        m == CHOOSE mm \in 1 .. 12 :
                 DaysBeforeMonth(y, mm) < r /\ r <= DaysBeforeMonth(y, mm) + DaysInMonth(y, mm)
    IN  Date(y, m, r - DaysBeforeMonth(y, m))

\* date + datetime.timedelta(days = n)
AddDays(dt, n) == FromOrdinal(ToOrdinal(dt) + n)

\* (a - b).days
DaysBetween(a, b) == ToOrdinal(a) - ToOrdinal(b)

\* date + relativedelta(months = n): the month moves, the year carries, and
\* the day is cut to the last day of the target month
AddMonths(dt, n) ==
    LET t == (dt.month - 1) + n
        y == dt.year + (t \div 12)
        m == (t % 12) + 1
    IN  Date(y, m, Min(dt.day, DaysInMonth(y, m)))

\* date + relativedelta(years = n)
AddYears(dt, n) ==
    LET y == dt.year + n
    IN  Date(y, dt.month, Min(dt.day, DaysInMonth(y, dt.month)))

\* a date string 'yyyymmdd' is the sequence of its eight digits
\* int() of the first k digits of s
RECURSIVE DigitsToIntTo(_, _)
DigitsToIntTo(s, k) == IF k = 0 THEN 0 ELSE 10 * DigitsToIntTo(s, k - 1) + s[k]

DigitsToInt(s) == DigitsToIntTo(s, Len(s))

RECURSIVE IntToDigits(_, _)
IntToDigits(n, width) ==
    IF width = 0 THEN <<>> ELSE Append(IntToDigits(n \div 10, width - 1), n % 10)

get_datetime_format(date_string) ==
    Date(DigitsToInt(SubSeq(date_string, 1, 4)),
         DigitsToInt(SubSeq(date_string, 5, 6)),
         DigitsToInt(SubSeq(date_string, 7, 8)))

get_date_string_format(date_datetime) ==
    IntToDigits(date_datetime.year, 4) \o IntToDigits(date_datetime.month, 2)
        \o IntToDigits(date_datetime.day, 2)

\* ------------------------------------------------------------------- state
VARIABLES
    pc,                           \* the statement the program is at
    exc,                          \* the exception that ended the run, or "None"
    self,                         \* the fields of the BackTesting instance
    heap,                         \* the DataFrames and lists, by address
    results_df,                   \* the table read_file('results_raw') yields
    tie_order,                    \* how the build's default sort orders equal scores
    num_backtesting,              \* run_multiple_backtesting's arguments
    years,
    month_interval,               \* get_backtestign_start_date's argument
    backtesting,                  \* the number of trials started so far
    returns_df,                   \* run_back_testing's results (locals of the loop)
    backtesting_results_dict,
    all_returns_df,
    all_backtesting_results_list,
    gap,                          \* the frame of get_asset_performance
    request,                      \* the call to the data provider in flight
    anomalies,                    \* provider answers so far that were incomplete
    saved                         \* the names of the files written so far

vars == <<pc, exc, self, heap, results_df, tie_order, num_backtesting, years,
          month_interval, backtesting, returns_df, backtesting_results_dict,
          all_returns_df, all_backtesting_results_list, gap, request, anomalies,
          saved>>

\* ------------------------------------------------------------------- heap
NumAddr == 4 * MaxTrials + 8

Addr == 1 .. NumAddr

NoAddr == 0

Free == [kind |-> "free"]

\* a DataFrame: its row labels, its column names and its rows, each row the
\* tuple of its cells in column order
DataFrame(index, columns, rows) ==
    [kind |-> "DataFrame", index |-> index, columns |-> columns, rows |-> rows]

\* pd.DataFrame()
EmptyFrame == DataFrame(<<>>, <<>>, <<>>)

\* a column named by a text, and a column named by a date string
Col(name) == [name |-> name]

DateCol(date_string) == [date |-> date_string]

\* the labels 0 .. n-1 of a new table
RangeIndex(n) == [i \in 1 .. n |-> i - 1]

List(items) == [kind |-> "list", items |-> items]

Range(s) == {s[i] : i \in DOMAIN s}

\* the addresses a result record refers to
DictRefs(d) == {d.selected_assets, d.ric_list, d.asset_performance, d.index_performance}

\* the addresses some name of the program refers to
Roots(slf, frame, dict, list) ==
    ({slf.selected_assets, slf.ric_list, slf.asset_performance, slf.index_performance,
      frame.ric_list.ref, frame.df, frame.df_end_date}
        \cup UNION {DictRefs(d) : d \in Range(dict) \cup Range(list)}) \ {NoAddr}

\* an object no name refers to is reclaimed
Collect(h, live) == [a \in Addr |-> IF a \in live THEN h[a] ELSE Free]

\* the address of a new object: the lowest one no name refers to
NewAddr(live) == CHOOSE a \in Addr : a \notin live /\ \A b \in Addr \ live : a <= b

\* ------------------------------------------------------------ environment
NoDate == Date(0, 0, 0)

Unset == <<0, -1>>

NoFrame ==
    [target |-> "none", start_date |-> <<>>, end_date |-> <<>>,
     ric_list |-> [ref |-> NoAddr, str |-> ""], leg |-> "none",
     count |-> 0, err |-> "None", df |-> NoAddr, df_end_date |-> NoAddr]

NoRequest == [instruments |-> <<>>, date |-> <<>>]

\* a local name before its first assignment, and after it
Unbound == [bound |-> FALSE]

Bound(v) == [bound |-> TRUE, value |-> v]

\* the instance after __init__: four empty objects, no dates
NewInstance(index_ric, start_date, num_assets) ==
    [index_ric |-> index_ric, start_date |-> start_date, num_assets |-> num_assets,
     selected_assets |-> 1, asset_performance |-> 2, index_performance |-> 3,
     ric_list |-> 4, backtesting_start_date |-> NoDate,
     backtesting_end_date |-> NoDate, portfolio_return |-> Unset]

NewHeap ==
    [a \in Addr |-> IF a \in 1 .. 3 THEN EmptyFrame
                    ELSE IF a = 4 THEN List(<<>>) ELSE Free]

\* the table of the modelled campaign: its scores are distinct
results_raw ==
    << [ric |-> "B", score |-> 3, name |-> "b"], [ric |-> "A", score |-> 9, name |-> "a"],
       [ric |-> "C", score |-> 1, name |-> "c"] >>

Identity(n) == [i \in 1 .. n |-> i]

\* the close price the provider holds for an instrument at a date
PriceClose(ric, date_string) ==
    LET d == get_datetime_format(date_string)
        late == d.year > 2016
        v == (d.day - 1) % 3
    IN  IF ric = "A" THEN (IF late THEN 110 + v ELSE 100)
        ELSE IF ric = "B" THEN (IF late THEN 45 - v ELSE 50)
        ELSE IF ric = "C" THEN (IF late THEN 20 ELSE 20 + v)
        ELSE (IF late THEN 2100 + 10 * v ELSE 2000)

\* -------------------------------------------------------------- selection
\* DataFrame.sort_values(by = 'score', ascending = False) with the default
\* kind = 'quicksort', which is not a stable sort: rows of equal score come out
\* in an order the build decides, here by the rank tie[i] of row i
SortKeyBefore(rows, tie, i, j) ==
    \/ rows[i].score > rows[j].score
    \/ rows[i].score = rows[j].score /\ tie[i] < tie[j]

sort_values(rows, tie) ==
    LET n == Len(rows)
        place(i) == 1 + Cardinality({j \in 1 .. n : SortKeyBefore(rows, tie, j, i)})
    IN  [p \in 1 .. n |-> rows[CHOOSE i \in 1 .. n : place(i) = p]]

\* .iloc[:num_assets, -2:]: the first num_assets rows, or all when there are
\* fewer, and the last two columns
iloc_rows(rows, k) == SubSeq(rows, 1, Min(k, Len(rows)))

selection_frame(rows) ==
    DataFrame([i \in 1 .. Len(rows) |-> rows[i].ric], <<Col("score"), Col("name")>>,
              [i \in 1 .. Len(rows) |-> <<rows[i].score, rows[i].name>>])

\* lines 312-314 of run_back_testing: read_file, then select_assets, which
\* binds self.selected_assets and self.ric_list to two new objects
select_assets ==
    /\ pc = "read_file"
    /\ LET sel == iloc_rows(sort_values(results_df, tie_order), self.num_assets)
           \* what is still referred to once the two fields are rebound
           live == Roots([self EXCEPT !.selected_assets = NoAddr, !.ric_list = NoAddr],
                         gap, backtesting_results_dict, all_backtesting_results_list)
           a1 == NewAddr(live)
           a2 == NewAddr(live \cup {a1})
           h == [heap EXCEPT ![a1] = selection_frame(sel),
                             \* .index.values.tolist()
                             ![a2] = List(selection_frame(sel).index)]
       IN  /\ self' = [self EXCEPT !.selected_assets = a1, !.ric_list = a2]
           /\ heap' = Collect(h, live \cup {a1, a2})
    /\ pc' = "start_date"
    /\ UNCHANGED <<saved, exc, results_df, tie_order, num_backtesting, years, month_interval,
                   backtesting, returns_df, backtesting_results_dict, all_returns_df,
                   all_backtesting_results_list, gap, request, anomalies>>

\* line 312: pd.read_pickle raises when the results file is missing or unreadable
read_file_raises ==
    /\ pc = "read_file"
    /\ pc' = "failed"
    /\ exc' = "FileNotFoundError"
    /\ UNCHANGED <<saved, self, heap, results_df, tie_order, num_backtesting, years,
                   month_interval, backtesting, returns_df, backtesting_results_dict,
                   all_returns_df, all_backtesting_results_list, gap, request, anomalies>>

\* ------------------------------------------------------------------ dates
\* a draw that can reach the upper limit (randint in place of randrange)
randrange_inclusive(days) == 0 .. days

\* randrange(days_between_dates) yields one of 0 .. days_between_dates - 1
randrange(days) == 0 .. days - 1

\* the draws a campaign is checked with: the first and the last
SomeDraws(days) == {0, days - 1} \cap randrange(days)

\* lines 229-237, with the number randrange drew (month_interval > 0 in every
\* modelled call, so its range is never empty)
sample_start(draw) ==
    /\ pc = "start_date"
    /\ LET start_date_datetime == get_datetime_format(self.start_date)
           upper_date_limit == AddMonths(start_date_datetime, month_interval)
           days_between_dates == DaysBetween(upper_date_limit, start_date_datetime)
       IN  self' = [self EXCEPT !.backtesting_start_date =
                                     AddDays(start_date_datetime, draw)]
    /\ pc' = "end_date"
    /\ UNCHANGED <<saved, exc, heap, results_df, tie_order, num_backtesting, years,
                   month_interval, backtesting, returns_df, backtesting_results_dict,
                   all_returns_df, all_backtesting_results_list, gap, request, anomalies>>

WindowDays ==
    DaysBetween(AddMonths(get_datetime_format(self.start_date), month_interval),
                get_datetime_format(self.start_date))

get_backtestign_start_date ==
    /\ pc = "start_date"
    /\ \E draw \in SomeDraws(WindowDays) : sample_start(draw)

get_backtestign_start_date_any ==
    /\ pc = "start_date"
    /\ \E draw \in randrange(WindowDays) : sample_start(draw)

\* line 249
get_backtesting_end_date ==
    /\ pc = "end_date"
    /\ self' = [self EXCEPT !.backtesting_end_date =
                                 AddYears(self.backtesting_start_date, years)]
    /\ pc' = "format"
    /\ UNCHANGED <<saved, exc, heap, results_df, tie_order, num_backtesting, years,
                   month_interval, backtesting, returns_df, backtesting_results_dict,
                   all_returns_df, all_backtesting_results_list, gap, request, anomalies>>

\* ------------------------------------------------------- price requests
\* the instruments a request names: the list self.ric_list, or the one index
Instruments(ric_list) ==
    IF ric_list.ref # NoAddr THEN heap[ric_list.ref].items ELSE <<ric_list.str>>

NewFrame(target, ric_list) ==
    [target |-> target,
     start_date |-> get_date_string_format(self.backtesting_start_date),
     end_date |-> get_date_string_format(self.backtesting_end_date),
     ric_list |-> ric_list, leg |-> "start",
     count |-> 0, err |-> "Error Object", df |-> NoAddr, df_end_date |-> NoAddr]

\* the two calls of run_back_testing in the other order: the index first
call_index_first ==
    /\ pc = "format"
    /\ gap' = NewFrame("index", [ref |-> NoAddr, str |-> self.index_ric])
    /\ pc' = "request"
    /\ UNCHANGED <<saved, exc, self, heap, results_df, tie_order, num_backtesting, years,
                   month_interval, backtesting, returns_df, backtesting_results_dict,
                   all_returns_df, all_backtesting_results_list, request, anomalies>>

\* lines 320-325 and 120-121: the dates as strings, then the call for the assets
call_asset_performance ==
    /\ pc = "format"
    /\ gap' = NewFrame("asset", [ref |-> self.ric_list, str |-> ""])
    /\ pc' = "request"
    /\ UNCHANGED <<saved, exc, self, heap, results_df, tie_order, num_backtesting, years,
                   month_interval, backtesting, returns_df, backtesting_results_dict,
                   all_returns_df, all_backtesting_results_list, request, anomalies>>

\* lines 327-329 and 120-121: the call for the index
call_index_performance ==
    /\ pc = "index"
    /\ gap' = NewFrame("index", [ref |-> NoAddr, str |-> self.index_ric])
    /\ pc' = "request"
    /\ UNCHANGED <<saved, exc, self, heap, results_df, tie_order, num_backtesting, years,
                   month_interval, backtesting, returns_df, backtesting_results_dict,
                   all_returns_df, all_backtesting_results_list, request, anomalies>>

\* lines 122-124 and 135-137: the loop test holds (err != None), the request goes out
get_price_close ==
    /\ pc = "request"
    /\ gap.err # "None"
    /\ request' = [instruments |-> Instruments(gap.ric_list),
                   date |-> IF gap.leg = "start" THEN gap.start_date ELSE gap.end_date]
    /\ pc' = "await"
    /\ UNCHANGED <<saved, exc, self, heap, results_df, tie_order, num_backtesting, years,
                   month_interval, backtesting, returns_df, backtesting_results_dict,
                   all_returns_df, all_backtesting_results_list, gap, anomalies>>

\* what the provider can answer with err = None: the complete table ...
CompleteRows(instruments, date) ==
    [i \in 1 .. Len(instruments) |->
        <<instruments[i], RatInt(PriceClose(instruments[i], date))>>]

DropRow(rows, j) == SubSeq(rows, 1, j - 1) \o SubSeq(rows, j + 1, Len(rows))

NaNRow(rows, j) == [rows EXCEPT ![j] = <<rows[j][1], NaN>>]

\* ... or a table with one instrument left out or without a price, or no row
IncompleteRows(instruments, date) ==
    LET full == CompleteRows(instruments, date)
    IN  {DropRow(full, j) : j \in 1 .. Len(full)}
            \cup {NaNRow(full, j) : j \in 1 .. Len(full)} \cup {<<>>}

ProviderFrame(rows) ==
    DataFrame(RangeIndex(Len(rows)), <<Col("Instrument"), Col("Price Close")>>, rows)

\* count += 1, with the counter stopping at MaxCount
Counted(count) == IF count < MaxCount THEN count + 1 ELSE count

\* line 103: df.columns = ['Instrument', column_name], on the object itself
change_column_name(df, column_name) ==
    [df EXCEPT !.columns = <<Col("Instrument"), DateCol(column_name)>>]

\* lines 124-134 and 137-141: df, err are assigned, count += 1, and the loop test
\* sends the program to the next request or past the loop
Receive(rows, err) ==
    LET \* what is still referred to once df (or df_end_date) is rebound
        live == Roots(self, IF gap.leg = "start" THEN [gap EXCEPT !.df = NoAddr]
                            ELSE [gap EXCEPT !.df_end_date = NoAddr],
                      backtesting_results_dict, all_backtesting_results_list)
        a == IF err = "None" THEN NewAddr(live) ELSE NoAddr
        got == IF gap.leg = "start" THEN [gap EXCEPT !.df = a, !.err = err,
                                                      !.count = Counted(gap.count)]
               ELSE [gap EXCEPT !.df_end_date = a, !.err = err,
                                !.count = Counted(gap.count)]
    IN  /\ request' = NoRequest
        /\ IF err # "None"
           THEN /\ gap' = got
                /\ heap' = Collect(heap, live)
                /\ pc' = "request"
           ELSE IF gap.leg = "start"
           THEN /\ gap' = [got EXCEPT !.leg = "end", !.count = 0, !.err = "Error Object"]
                /\ heap' = Collect([heap EXCEPT ![a] =
                                change_column_name(ProviderFrame(rows), gap.start_date)],
                                live \cup {a})
                /\ pc' = "request"
           ELSE /\ gap' = got
                /\ heap' = Collect([heap EXCEPT ![a] = ProviderFrame(rows)], live \cup {a})
                /\ pc' = "compute"

\* the provider answers with an error object
provider_error ==
    /\ pc = "await"
    /\ Receive(<<>>, "Error")
    /\ UNCHANGED <<saved, exc, self, results_df, tie_order, num_backtesting, years,
                   month_interval, backtesting, returns_df, backtesting_results_dict,
                   all_returns_df, all_backtesting_results_list, anomalies>>

\* the provider answers with every price asked for
provider_complete ==
    /\ pc = "await"
    /\ Receive(CompleteRows(request.instruments, request.date), "None")
    /\ UNCHANGED <<saved, exc, self, results_df, tie_order, num_backtesting, years,
                   month_interval, backtesting, returns_df, backtesting_results_dict,
                   all_returns_df, all_backtesting_results_list, anomalies>>

\* the provider answers without an error, and a price is missing
provider_incomplete ==
    /\ pc = "await"
    /\ anomalies < MaxAnomalies
    /\ \E rows \in IncompleteRows(request.instruments, request.date) :
            Receive(rows, "None")
    /\ anomalies' = anomalies + 1
    /\ UNCHANGED <<saved, exc, self, results_df, tie_order, num_backtesting, years,
                   month_interval, backtesting, returns_df, backtesting_results_dict,
                   all_returns_df, all_backtesting_results_list>>

\* ek.get_data raises: nothing catches it, the run ends
provider_raises ==
    /\ pc = "await"
    /\ pc' = "failed"
    /\ exc' = "EikonError"
    /\ UNCHANGED <<saved, self, heap, results_df, tie_order, num_backtesting, years,
                   month_interval, backtesting, returns_df, backtesting_results_dict,
                   all_returns_df, all_backtesting_results_list, gap, request, anomalies>>

\* ------------------------------------------------------------ performance
\* the position of a column, by name
ColumnPos(df, col) == CHOOSE c \in 1 .. Len(df.columns) : df.columns[c] = col

\* df[name] = series: the series' values are placed by row label; a label of
\* df the series does not have gets NaN, a label only the series has is dropped
AlignedValue(df, series, i) ==
    IF \E j \in 1 .. Len(series.index) : series.index[j] = df.index[i]
    THEN series.rows[CHOOSE j \in 1 .. Len(series.index) : series.index[j] = df.index[i]]
    ELSE NaN

\* .iloc[:, -1] as a series: the row labels and the cells of the last column
LastColumn(df) ==
    [index |-> df.index,
     rows |-> [i \in 1 .. Len(df.rows) |-> df.rows[i][Len(df.columns)]]]

\* ((df.iloc[:,2] / df.iloc[:,1]) - 1) * 100, on a row with its three cells
simple_return(row) == RatMul(RatSub(RatDiv(row[3], row[2]), RatInt(1)), RatInt(100))

\* lines 143-148 (without log_return): the end prices and the returns are
\* written into the table of the start prices
performance_frame(df, df_end_date, end_date) ==
    LET series == LastColumn(change_column_name(df_end_date, end_date))
        priced == [i \in 1 .. Len(df.rows) |->
                      Append(df.rows[i], AlignedValue(df, series, i))]
    IN  [df EXCEPT !.columns = df.columns \o <<DateCol(end_date), Col("return")>>,
                   !.rows = [i \in 1 .. Len(df.rows) |->
                                Append(priced[i], simple_return(priced[i]))]]

\* the table written into the object the field already refers to, in place of
\* binding the field to the new table
get_asset_performance_in_place ==
    /\ pc = "compute"
    /\ LET target == IF gap.target = "asset" THEN self.asset_performance
                     ELSE self.index_performance
           h == [heap EXCEPT ![target] =
                    performance_frame(heap[gap.df], heap[gap.df_end_date], gap.end_date)]
       IN  /\ gap' = NoFrame
           /\ heap' = Collect(h, Roots(self, NoFrame, backtesting_results_dict,
                                       all_backtesting_results_list))
    /\ pc' = IF gap.target = "asset" THEN "index" ELSE "portfolio"
    /\ UNCHANGED <<saved, exc, self, results_df, tie_order, num_backtesting, years,
                   month_interval, backtesting, returns_df, backtesting_results_dict,
                   all_returns_df, all_backtesting_results_list, request, anomalies>>

\* lines 143-148, then the return to lines 323 and 327 of run_back_testing
get_asset_performance ==
    /\ pc = "compute"
    /\ LET h == [heap EXCEPT
                    ![gap.df_end_date] = change_column_name(@, gap.end_date),
                    ![gap.df] = performance_frame(@, heap[gap.df_end_date], gap.end_date)]
           slf == IF gap.target = "asset"
                  THEN [self EXCEPT !.asset_performance = gap.df]
                  ELSE [self EXCEPT !.index_performance = gap.df]
       IN  /\ self' = slf
           /\ gap' = NoFrame
           /\ heap' = Collect(h, Roots(slf, NoFrame, backtesting_results_dict,
                                       all_backtesting_results_list))
    /\ pc' = IF gap.target = "asset" THEN "index" ELSE "portfolio"
    /\ UNCHANGED <<saved, exc, results_df, tie_order, num_backtesting, years, month_interval,
                   backtesting, returns_df, backtesting_results_dict, all_returns_df,
                   all_backtesting_results_list, request, anomalies>>

\* -------------------------------------------------------------- portfolio
\* the keys of a dict filled in the order of s: each value once, first come first
RECURSIVE Keys(_)
Keys(s) ==
    IF s = <<>> THEN <<>>
    ELSE LET front == Keys(SubSeq(s, 1, Len(s) - 1))
         IN  IF s[Len(s)] \in Range(front) THEN front ELSE Append(front, s[Len(s)])

\* self.asset_performance.loc[:, 'Instrument']
InstrumentColumn(df) ==
    [i \in 1 .. Len(df.rows) |-> df.rows[i][ColumnPos(df, Col("Instrument"))]]

\* the weight 1/num_assets: the size asked for, not the size of the table
equal_weight_of_num_assets(df) ==
    LET keys == Keys(InstrumentColumn(df))
    IN  [i \in 1 .. Len(keys) |-> <<keys[i], Rat(1, self.num_assets)>>]

\* lines 161-166: the weight 1/len(table) for every instrument of the table; the
\* dict is the sequence of its (asset, weight) items
get_equally_weighted_portfolio(df) ==
    LET equally_weighted == Rat(1, Len(df.rows))
        keys == Keys(InstrumentColumn(df))
    IN  [i \in 1 .. Len(keys) |-> <<keys[i], equally_weighted>>]

\* line 184: the return of the first row of the asset
Profit(df, asset) ==
    LET i == CHOOSE k \in 1 .. Len(df.rows) :
                 /\ InstrumentColumn(df)[k] = asset
                 /\ \A m \in 1 .. k - 1 : InstrumentColumn(df)[m] # asset
    IN  df.rows[i][ColumnPos(df, Col("return"))]

\* lines 178-186: portfolio_return + (profit/100) * weight, item by item
RECURSIVE WeightedSum(_, _)
WeightedSum(df, items) ==
    IF items = <<>> THEN RatInt(0)
    ELSE LET last == items[Len(items)]
         IN  RatAdd(WeightedSum(df, SubSeq(items, 1, Len(items) - 1)),
                    RatMul(RatDiv(Profit(df, last[1]), RatInt(100)), last[2]))

\* lines 178-189
calculate_portfolio_return(df, allocation_dict) ==
    RatMul(WeightedSum(df, allocation_dict), RatInt(100))

\* line 331, get_portfolio_return(equally_weighted = True, allocation_dict = None):
\* 1/len(...) raises ZeroDivisionError on a table without rows
get_portfolio_return ==
    /\ pc = "portfolio"
    /\ LET df == heap[self.asset_performance]
       IN  IF Len(df.rows) = 0
           THEN /\ pc' = "failed"
                /\ exc' = "ZeroDivisionError"
                /\ UNCHANGED self
           ELSE /\ self' = [self EXCEPT !.portfolio_return =
                       calculate_portfolio_return(df, get_equally_weighted_portfolio(df))]
                /\ pc' = "resume"
                /\ UNCHANGED exc
    /\ UNCHANGED <<saved, heap, results_df, tie_order, num_backtesting, years, month_interval,
                   backtesting, returns_df, backtesting_results_dict, all_returns_df,
                   all_backtesting_results_list, gap, request, anomalies>>

\* ----------------------------------------------------------------- results
\* lines 289-299: the dict refers to the objects the fields refer to
results_dict(slf, yrs) ==
    [num_assets |-> slf.num_assets,
     selected_assets |-> slf.selected_assets,
     ric_list |-> slf.ric_list,
     start_date |-> slf.backtesting_start_date,
     end_date |-> slf.backtesting_end_date,
     investment_period |-> yrs,
     asset_performance |-> slf.asset_performance,
     index_performance |-> slf.index_performance,
     portfolio_return |-> slf.portfolio_return]

\* line 333
resume_backtesting_results ==
    /\ pc = "resume"
    /\ backtesting_results_dict' = <<results_dict(self, years)>>
    /\ heap' = Collect(heap, Roots(self, gap, backtesting_results_dict',
                                   all_backtesting_results_list))
    /\ pc' = "returns"
    /\ UNCHANGED <<saved, exc, self, results_df, tie_order, num_backtesting, years,
                   month_interval, backtesting, returns_df, all_returns_df,
                   all_backtesting_results_list, gap, request, anomalies>>

\* lines 337-338
returns_frame(index_performance, portfolio_return) ==
    DataFrame(RangeIndex(1), <<Col("index_performance"), Col("portfolio_return")>>,
              << <<index_performance, portfolio_return>> >>)

\* lines 335-339: .iloc[0,3] raises IndexError on a table without rows; else
\* run_back_testing returns
run_back_testing ==
    /\ pc = "returns"
    /\ LET df == heap[self.index_performance]
       IN  IF Len(df.rows) = 0
           THEN /\ pc' = "failed"
                /\ exc' = "IndexError"
                /\ UNCHANGED returns_df
           ELSE /\ returns_df' = <<returns_frame(df.rows[1][4], self.portfolio_return)>>
                /\ pc' = "append"
                /\ UNCHANGED exc
    /\ UNCHANGED <<saved, self, heap, results_df, tie_order, num_backtesting, years,
                   month_interval, backtesting, backtesting_results_dict, all_returns_df,
                   all_backtesting_results_list, gap, request, anomalies>>

\* ---------------------------------------------------------------- campaign
\* line 355: the next value of range(0, num_backtesting, 1), or the end of the loop
for_backtesting ==
    /\ pc = "for"
    /\ IF backtesting + 1 < num_backtesting
       THEN /\ backtesting' = backtesting + 1
            /\ pc' = "read_file"
       ELSE /\ pc' = "reset_index"
            /\ UNCHANGED backtesting
    /\ UNCHANGED <<saved, exc, self, heap, results_df, tie_order, num_backtesting, years,
                   month_interval, returns_df, backtesting_results_dict, all_returns_df,
                   all_backtesting_results_list, gap, request, anomalies>>

\* the rows of other before the rows of df
frame_append_front(df, other) ==
    [df EXCEPT !.index = other.index \o df.index, !.rows = other.rows \o df.rows]

\* DataFrame.append: a new table, the rows of other after the rows of df, each
\* with its own label
frame_append(df, other) ==
    [df EXCEPT !.index = df.index \o other.index, !.rows = df.rows \o other.rows]

\* lines 357-368
append_results ==
    /\ pc = "append"
    /\ IF backtesting = 0
       THEN /\ all_returns_df' = Bound(returns_df[1])
            /\ all_backtesting_results_list' = <<backtesting_results_dict[1]>>
       ELSE /\ all_returns_df' = Bound(frame_append(all_returns_df.value, returns_df[1]))
            /\ all_backtesting_results_list' =
                   Append(all_backtesting_results_list, backtesting_results_dict[1])
    /\ heap' = Collect(heap, Roots(self, gap, backtesting_results_dict,
                                   all_backtesting_results_list'))
    /\ pc' = "for"
    /\ UNCHANGED <<saved, exc, self, results_df, tie_order, num_backtesting, years,
                   month_interval, backtesting, returns_df, backtesting_results_dict,
                   gap, request, anomalies>>

\* line 370: reset_index(drop = True)
reset_index(df) == [df EXCEPT !.index = RangeIndex(Len(df.rows))]

\* line 388 of save_graphs: the column alpha is added to the table itself
with_alpha(df) ==
    [df EXCEPT !.columns = Append(df.columns, Col("alpha")),
               !.rows = [i \in 1 .. Len(df.rows) |->
                            Append(df.rows[i], RatSub(df.rows[i][2], df.rows[i][1]))]]

\* lines 372-373 and 395-403: the files save_df, save_list and save_graphs write
saved_files ==
    <<"all_returns.pkl", "all_returns.csv", "all_returns.xlsx", "results_list",
      "scatter.png", "scatter_no_alpha.png", "box.png">>

\* the end of the loop taken for an empty summary: the table and the list are
\* bound to empty objects, saved and returned
return_empty_results ==
    /\ pc = "reset_index"
    /\ all_returns_df' = Bound(with_alpha(reset_index(
                             IF all_returns_df.bound THEN all_returns_df.value
                             ELSE DataFrame(<<>>, <<Col("index_performance"),
                                                   Col("portfolio_return")>>, <<>>))))
    /\ saved' = saved \o saved_files
    /\ pc' = "returned"
    /\ UNCHANGED <<exc, self, heap, results_df, tie_order, num_backtesting, years,
                   month_interval, backtesting, returns_df, backtesting_results_dict,
                   all_backtesting_results_list, gap, request, anomalies>>

\* lines 370-376: a name never assigned raises UnboundLocalError at line 370,
\* before the saves of lines 372-375
return_results ==
    /\ pc = "reset_index"
    /\ IF all_returns_df.bound
       THEN /\ all_returns_df' = Bound(with_alpha(reset_index(all_returns_df.value)))
            /\ saved' = saved \o saved_files
            /\ pc' = "returned"
            /\ UNCHANGED exc
       ELSE /\ pc' = "failed"
            /\ exc' = "UnboundLocalError"
            /\ UNCHANGED <<all_returns_df, saved>>
    /\ UNCHANGED <<self, heap, results_df, tie_order, num_backtesting, years,
                   month_interval, backtesting, returns_df, backtesting_results_dict,
                   all_backtesting_results_list, gap, request, anomalies>>

\* -------------------------------------------------------- specifications
\* backtesting.py: the instance, then run_multiple_backtesting(num_backtesting, 3)
Init ==
    /\ pc = "for"
    /\ exc = "None"
    /\ self = NewInstance(".SPX", <<2, 0, 1, 6, 0, 1, 0, 1>>, NumAssets)
    /\ heap = NewHeap
    /\ results_df = results_raw
    /\ tie_order = Identity(Len(results_raw))
    /\ num_backtesting \in 0 .. MaxTrials
    /\ years = 3
    /\ month_interval = 6
    /\ backtesting = -1
    /\ returns_df = <<>>
    /\ backtesting_results_dict = <<>>
    /\ all_returns_df = Unbound
    /\ all_backtesting_results_list = <<>>
    /\ gap = NoFrame
    /\ request = NoRequest
    /\ anomalies = 0
    /\ saved = <<>>

Next ==
    \/ for_backtesting
    \/ read_file_raises
    \/ select_assets
    \/ get_backtestign_start_date
    \/ get_backtesting_end_date
    \/ call_asset_performance
    \/ get_price_close
    \/ provider_error
    \/ provider_complete
    \/ provider_incomplete
    \/ provider_raises
    \/ get_asset_performance
    \/ call_index_performance
    \/ get_portfolio_return
    \/ resume_backtesting_results
    \/ run_back_testing
    \/ append_results
    \/ return_results

Spec == Init /\ [][Next]_vars

FairSpec == Init /\ [][Next]_vars /\ WF_vars(Next)

\* select_assets alone, on every table of up to MaxRows rows with scores of
\* Scores, every num_assets and every order the sort may give to equal scores
Rics == <<"A", "B", "C", "D", "E", "F">>

Scores == {1, 3, 5}

Tables ==
    UNION {{[i \in 1 .. n |-> [ric |-> Rics[i], score |-> sc[i], name |-> Rics[i]]] :
                sc \in [1 .. n -> Scores]} : n \in 0 .. MaxRows}

SelectInit ==
    /\ pc = "read_file"
    /\ exc = "None"
    /\ \E k \in 0 .. MaxRows + 1 :
            self = NewInstance(".SPX", <<2, 0, 1, 6, 0, 1, 0, 1>>, k)
    /\ heap = NewHeap
    /\ results_df \in Tables
    /\ tie_order \in Permutations(1 .. Len(results_df))
    /\ num_backtesting = 0
    /\ years = 3
    /\ month_interval = 6
    /\ backtesting = -1
    /\ returns_df = <<>>
    /\ backtesting_results_dict = <<>>
    /\ all_returns_df = Unbound
    /\ all_backtesting_results_list = <<>>
    /\ gap = NoFrame
    /\ request = NoRequest
    /\ anomalies = 0
    /\ saved = <<>>

\* the caller selects once more from the same table
select_again ==
    /\ pc = "start_date"
    /\ pc' = "read_file"
    /\ UNCHANGED <<saved, exc, self, heap, results_df, tie_order, num_backtesting, years,
                   month_interval, backtesting, returns_df, backtesting_results_dict,
                   all_returns_df, all_backtesting_results_list, gap, request, anomalies>>

SelectNext == select_assets \/ select_again

SelectSpec == SelectInit /\ [][SelectNext]_vars

\* the two date steps alone, on reference dates at the ends of months and
\* years, every month_interval up to MaxMonths, every holding period up to
\* MaxYears and every number randrange can draw
ReferenceDates ==
    { <<2, 0, 1, 6, 0, 1, 0, 1>>, <<2, 0, 1, 6, 0, 1, 3, 1>>, <<2, 0, 1, 6, 0, 2, 2, 9>>,
      <<2, 0, 1, 5, 1, 1, 3, 0>>, <<2, 0, 1, 5, 1, 2, 3, 1>>, <<2, 0, 1, 6, 0, 8, 3, 1>>,
      <<2, 0, 1, 7, 0, 2, 2, 8>>, <<2, 0, 1, 6, 1, 2, 1, 5>> }

DateInit ==
    /\ pc = "start_date"
    /\ exc = "None"
    /\ \E d \in ReferenceDates : self = NewInstance(".SPX", d, NumAssets)
    /\ heap = NewHeap
    /\ results_df = results_raw
    /\ tie_order = Identity(Len(results_raw))
    /\ num_backtesting = 0
    /\ years \in 0 .. MaxYears
    /\ month_interval \in 1 .. MaxMonths
    /\ backtesting = -1
    /\ returns_df = <<>>
    /\ backtesting_results_dict = <<>>
    /\ all_returns_df = Unbound
    /\ all_backtesting_results_list = <<>>
    /\ gap = NoFrame
    /\ request = NoRequest
    /\ anomalies = 0
    /\ saved = <<>>

DateNext == get_backtestign_start_date_any \/ get_backtesting_end_date

DateSpec == DateInit /\ [][DateNext]_vars

\* ------------------------------------------------------------ properties
\* the state of the running trial, from the statement the program is at
TrialState ==
    IF pc = "read_file" THEN "Init"
    ELSE IF pc \in {"start_date", "end_date"} THEN "AssetsSelected"
    ELSE IF pc \in {"format", "request", "await", "compute", "index"} THEN "DatesSampled"
    ELSE IF pc \in {"portfolio", "resume", "returns"} THEN "PerformanceFetched"
    ELSE IF pc = "append" THEN "Completed"
    ELSE IF pc = "failed" /\ exc # "UnboundLocalError" THEN "Failed"
    ELSE "NoTrial"

CampaignEnded == pc \in {"returned", "failed"}

\* C1: a fetch whose every request is answered with an error stops after
\* max_retries requests: once max_retries requests of a fetch have been
\* answered, the last with an error, no further request of it is issued.
RetryBounded ==
    /\ ~(pc = "request" /\ gap.err = "Error" /\ gap.count >= max_retries)
    /\ ~(pc = "await" /\ gap.count >= max_retries)

\* C2: every run of the campaign eventually ends, returned or failed,
\* whatever the provider answers.
CampaignTerminates == <>CampaignEnded

\* the pair a summary row must hold for a record: the index return (the cell
\* .iloc[0,3] of the record's index table) and the record's portfolio return
RecordPair(r) == <<heap[r.index_performance].rows[1][4], r.portfolio_return>>

SummaryRows == IF all_returns_df.bound THEN all_returns_df.value.rows ELSE <<>>

SummaryMatches ==
    /\ Len(SummaryRows) = Len(all_backtesting_results_list)
    /\ \A i \in 1 .. Len(SummaryRows) :
           <<SummaryRows[i][1], SummaryRows[i][2]>>
               = RecordPair(all_backtesting_results_list[i])

IsPrefix(s, t) == Len(s) <= Len(t) /\ SubSeq(t, 1, Len(s)) = s

\* C3: a campaign of num_trials >= 1 completed trials returns num_trials rows
\* and num_trials records, row i holding the pair of record i; rows and records
\* are only ever appended, and the ones a trial adds are its own, at its index.
SummaryInOrder ==
    /\ [](/\ SummaryMatches
          /\ pc = "returned" =>
                /\ Len(SummaryRows) = num_backtesting
                /\ Len(all_backtesting_results_list) = num_backtesting
                /\ all_returns_df.value.index = RangeIndex(num_backtesting))
    /\ [][/\ IsPrefix(all_backtesting_results_list, all_backtesting_results_list')
          /\ \A i \in 1 .. Len(SummaryRows) :
                 /\ i <= Len(SummaryRows')
                 /\ SubSeq(SummaryRows'[i], 1, 2) = SubSeq(SummaryRows[i], 1, 2)
          /\ (pc = "append" /\ pc' = "for") =>
                 /\ Len(all_backtesting_results_list') = backtesting + 1
                 /\ all_backtesting_results_list'[backtesting + 1]
                        = results_dict(self, years)
                 /\ SummaryRows'[backtesting + 1] = returns_df[1].rows[1]]_vars

\* C3 witness: a returned campaign of two trials whose two rows differ
SummaryInOrderWitness ==
    /\ pc = "returned"
    /\ num_backtesting >= 2
    /\ SummaryRows[1] # SummaryRows[2]

\* the exceptions a trial ends with for want of data
DataErrors == {"EikonError", "ZeroDivisionError", "IndexError"}

\* C4: a data error of one trial does not end the campaign: a campaign that
\* has ended, without an error or after data errors, has run every one of its
\* trials and has returned its results.
TrialFailureIsolated ==
    (CampaignEnded /\ num_backtesting >= 1 /\ exc \in DataErrors \cup {"None"}) =>
        /\ pc = "returned"
        /\ backtesting = num_backtesting - 1

\* the performance table of the given dates, complete in its columns
PerformanceReady(a, start_date, end_date) ==
    heap[a].columns = <<Col("Instrument"), DateCol(get_date_string_format(start_date)),
                        DateCol(get_date_string_format(end_date)), Col("return")>>

TrialEdges ==
    { <<"NoTrial", "Init">>, <<"Init", "AssetsSelected">>,
      <<"AssetsSelected", "DatesSampled">>, <<"DatesSampled", "PerformanceFetched">>,
      <<"PerformanceFetched", "Completed">>, <<"Completed", "NoTrial">> }
        \cup {<<st, "Failed">> :
                st \in {"Init", "AssetsSelected", "DatesSampled", "PerformanceFetched"}}

\* C5: a trial goes Init, AssetsSelected, DatesSampled, PerformanceFetched,
\* Completed in that order, or to Failed from a state before Completed; a price
\* request is out only with the selection and both dates of the trial fixed;
\* the index is requested only with the asset table fetched; the portfolio
\* return and the record are made only with both tables fetched; a failed
\* trial has added no record.
TrialOrder ==
    /\ [](/\ pc = "await" =>
                /\ TrialState = "DatesSampled"
                /\ self.backtesting_start_date # NoDate
                /\ self.backtesting_end_date # NoDate
                /\ request.date \in
                       {get_date_string_format(self.backtesting_start_date),
                        get_date_string_format(self.backtesting_end_date)}
                /\ request.instruments \in {heap[self.ric_list].items, <<self.index_ric>>}
                /\ heap[self.ric_list].items = heap[self.selected_assets].index
                /\ request.instruments = <<self.index_ric>> =>
                       PerformanceReady(self.asset_performance,
                           self.backtesting_start_date, self.backtesting_end_date)
          /\ TrialState = "Failed" => Len(all_backtesting_results_list) = backtesting)
    /\ [][/\ TrialState' # TrialState => <<TrialState, TrialState'>> \in TrialEdges
          /\ (\/ self'.portfolio_return # self.portfolio_return
              \/ backtesting_results_dict' # backtesting_results_dict) =>
                 /\ TrialState = "PerformanceFetched"
                 /\ PerformanceReady(self.asset_performance,
                        self.backtesting_start_date, self.backtesting_end_date)
                 /\ PerformanceReady(self.index_performance,
                        self.backtesting_start_date, self.backtesting_end_date)]_vars

\* C5 witness: the second trial of a campaign has gone through every state
\* and is Completed, its record made
TrialOrderWitness ==
    /\ TrialState = "Completed"
    /\ backtesting = 1
    /\ backtesting_results_dict # <<>>

\* the records made so far: those of the list, and the one of the trial that
\* has just made its own
Records ==
    Range(all_backtesting_results_list) \cup
        (IF pc \in {"returns", "append"} THEN Range(backtesting_results_dict) ELSE {})

Distinct(s) == \A i, j \in 1 .. Len(s) : s[i] = s[j] => i = j

RECURSIVE SumTo(_, _)
SumTo(s, k) == IF k = 0 THEN RatInt(0) ELSE RatAdd(SumTo(s, k - 1), s[k])

\* the arithmetic mean of the return column of a table
MeanReturn(df) ==
    RatDiv(SumTo([i \in 1 .. Len(df.rows) |-> df.rows[i][4]], Len(df.rows)),
           RatInt(Len(df.rows)))

\* C7: in every record made, over a performance table of n >= 1 distinct
\* instruments, the equal-weight allocation holds exactly the n instruments,
\* each with weight 1/n, the weights sum to 1, and the portfolio return is the
\* arithmetic mean of the n simple returns.
EqualWeightMean ==
    \A r \in Records :
        LET df == heap[r.asset_performance]
            n == Len(df.rows)
            allocation_dict == get_equally_weighted_portfolio(df)
        IN  (n >= 1 /\ Distinct(InstrumentColumn(df))) =>
                /\ Len(allocation_dict) = n
                /\ \A i \in 1 .. n :
                       allocation_dict[i] = <<InstrumentColumn(df)[i], <<1, n>>>>
                /\ SumTo([i \in 1 .. n |-> allocation_dict[i][2]], n) = RatInt(1)
                /\ r.portfolio_return = MeanReturn(df)

\* C7 witness: a record over A 100 -> 110 and B 50 -> 45 with the return 0
EqualWeightMeanWitness ==
    \E r \in Range(all_backtesting_results_list) :
        /\ heap[r.asset_performance].rows =
               << <<"A", RatInt(100), RatInt(110), RatInt(10)>>,
                  <<"B", RatInt(50), RatInt(45), RatInt(-10)>> >>
        /\ r.portfolio_return = RatInt(0)

\* C9: a trial completes only with a price for every selected instrument at
\* both dates: every instrument of the selection has a row in the performance
\* table, with a start price and an end price.
MissingPriceFails ==
    TrialState = "Completed" =>
        \A i \in 1 .. Len(heap[self.ric_list].items) :
            \E k \in 1 .. Len(heap[self.asset_performance].rows) :
                LET row == heap[self.asset_performance].rows[k]
                IN  /\ row[1] = heap[self.ric_list].items[i]
                    /\ ~IsNaN(row[2])
                    /\ ~IsNaN(row[3])

\* what a record refers to, in a given heap
Deref(h, r) ==
    [selected_assets |-> h[r.selected_assets], ric_list |-> h[r.ric_list],
     asset_performance |-> h[r.asset_performance],
     index_performance |-> h[r.index_performance]]

\* a record holds the data of one trial: the list of its selection, the tables
\* of its dates, the end date of its start date, the return of its table
OwnTrial(r) ==
    /\ heap[r.ric_list].items = heap[r.selected_assets].index
    /\ r.end_date = AddYears(r.start_date, r.investment_period)
    /\ PerformanceReady(r.asset_performance, r.start_date, r.end_date)
    /\ PerformanceReady(r.index_performance, r.start_date, r.end_date)
    /\ Len(heap[r.asset_performance].rows) >= 1
    /\ r.portfolio_return =
           calculate_portfolio_return(heap[r.asset_performance],
               get_equally_weighted_portfolio(heap[r.asset_performance]))

\* C10: a record of the result list, and every object it refers to, never
\* changes once it is in the list, and holds the data of its own trial.
RecordsImmutable ==
    /\ [](\A r \in Range(all_backtesting_results_list) : OwnTrial(r))
    /\ [][\A i \in 1 .. Len(all_backtesting_results_list) :
              /\ i <= Len(all_backtesting_results_list')
              /\ all_backtesting_results_list'[i] = all_backtesting_results_list[i]
              /\ Deref(heap', all_backtesting_results_list[i])
                     = Deref(heap, all_backtesting_results_list[i])]_vars

\* C10 witness: two records with different dates and different tables, after
\* the second trial has written every field
RecordsImmutableWitness ==
    /\ pc = "returned"
    /\ Len(all_backtesting_results_list) >= 2
    /\ all_backtesting_results_list[1].start_date # all_backtesting_results_list[2].start_date
    /\ heap[all_backtesting_results_list[1].asset_performance]
           # heap[all_backtesting_results_list[2].asset_performance]
    /\ all_backtesting_results_list[1].asset_performance
           # all_backtesting_results_list[2].asset_performance

DateBefore(a, b) ==
    \/ a.year < b.year
    \/ a.year = b.year /\ a.month < b.month
    \/ a.year = b.year /\ a.month = b.month /\ a.day < b.day

\* C6: once sampled, the start date is at or after the reference date and
\* before the reference date plus month_interval calendar months; once set,
\* the end date is the start date's day and month, years calendar years
\* later, 29 February becoming 28 February in a year that is not a leap year.
DateWindow ==
    LET reference == get_datetime_format(self.start_date)
        start == self.backtesting_start_date
        end == self.backtesting_end_date
    IN  /\ pc \in {"end_date", "format"} =>
              /\ ~DateBefore(start, reference)
              /\ DateBefore(start, AddMonths(reference, month_interval))
        /\ pc = "format" =>
              /\ end.year = start.year + years
              /\ end.month = start.month
              /\ end.day = IF start.month = 2 /\ start.day = 29 /\ ~IsLeap(end.year)
                           THEN 28 ELSE start.day

\* C6 witness: month_interval 1, a start on 29 February 2016, an end on 28
\* February of the next year
DateWindowWitness ==
    /\ pc = "format"
    /\ month_interval = 1
    /\ self.backtesting_start_date = Date(2016, 2, 29)
    /\ self.backtesting_end_date = Date(2017, 2, 28)

\* the row of the table an instrument of the selection comes from
TableRow(ric) == CHOOSE i \in 1 .. Len(results_df) : results_df[i].ric = ric

\* C8: the selection is the min(num_assets, n) rows of highest score, in
\* descending order of score, rows of equal score in the order of the table;
\* selecting again from the same table gives the same selection.
StableTopK ==
    pc = "start_date" =>
        LET sel == heap[self.selected_assets]
            m == Len(sel.index)
            from == [i \in 1 .. m |-> TableRow(sel.index[i])]
            score(i) == results_df[i].score
        IN  /\ m = Min(self.num_assets, Len(results_df))
            /\ heap[self.ric_list].items = sel.index
            /\ \A i \in 1 .. m : sel.rows[i][1] = score(from[i])
            /\ \A i, j \in 1 .. m :
                   i < j => \/ score(from[i]) > score(from[j])
                            \/ score(from[i]) = score(from[j]) /\ from[i] < from[j]
            /\ \A u \in (1 .. Len(results_df)) \ Range(from) : \A i \in 1 .. m :
                   \/ score(u) < score(from[i])
                   \/ score(u) = score(from[i]) /\ u > from[i]
            /\ sel = selection_frame(
                         iloc_rows(sort_values(results_df, tie_order), self.num_assets))

\* C11: a campaign of no trial (num_backtesting = 0) starts no trial and has
\* no request out, never binds or returns a summary, and writes no file; it
\* stops nowhere but in the error, which its second step raises: the
\* UnboundLocalError of the first use of all_returns_df.
NoTrialsFails ==
    /\ [](num_backtesting = 0 =>
              /\ pc \in {"for", "reset_index", "failed"}
              /\ TrialState = "NoTrial"
              /\ backtesting = -1
              /\ request = NoRequest
              /\ gap = NoFrame
              /\ ~all_returns_df.bound
              /\ all_backtesting_results_list = <<>>
              /\ saved = <<>>
              /\ pc = "failed" => exc = "UnboundLocalError"
              /\ pc # "failed" => ENABLED <<Next>>_vars)
    /\ [][num_backtesting = 0 =>
              /\ pc = "for" => pc' = "reset_index"
              /\ pc = "reset_index" => pc' = "failed" /\ exc' = "UnboundLocalError"]_vars

\* C11 witness: the campaign of no trial has ended in the error, nothing saved
NoTrialsFailsWitness ==
    /\ num_backtesting = 0
    /\ pc = "failed"
    /\ exc = "UnboundLocalError"
    /\ saved = <<>>
    /\ ~all_returns_df.bound

====
